---- MODULE Spec2Model ----
(***************************************************************************)
(* The entity store of the creative-asset manager (hooks/useStore), the    *)
(* search box of the main layout (App.tsx) and the edge construction of    *)
(* the network graph (NetworkGraph), as a state machine.                   *)
(*                                                                         *)
(* Strings that the code inspects character by character (title, content,  *)
(* tags, the search query) are sequences of one-character strings, so that *)
(* toLowerCase and includes are computed, not assumed.  Identifiers, types *)
(* and timestamps are opaque strings.  An optional field of an Entity that *)
(* is absent is a field missing from the record's domain.                  *)
(***************************************************************************)
EXTENDS Integers, Sequences, FiniteSets, TLC

VARIABLES entities, searchQuery, lastOp, steps, storage, app,
          aiEnabled, call, requests,
          imports, selectedEntityId, isProcessing,
          isImageSearching, imageSearch, modal

vars == <<entities, searchQuery, lastOp, steps, storage, app, aiEnabled, call, requests,
          imports, selectedEntityId, isProcessing, isImageSearching, imageSearch, modal>>

(* The state of MainLayout's image search: its flag and the runs of        *)
(* handleImageSearch.                                                      *)
searchVars == <<isImageSearching, imageSearch>>

(* The state of MainLayout's image import: the runs of handleFileUpload,   *)
(* the entity whose modal is open, and the processing flag.                *)
importVars == <<imports, selectedEntityId, isProcessing>>

(* The state of the AI adapter: whether process.env.API_KEY is set, the    *)
(* adapter call made directly, and the requests sent to the service.       *)
adapterVars == <<aiEnabled, call, requests>>

(* Number of store calls and input events explored from the initial state. *)
MaxSteps == 2

(***************************************************************************)
(* Text of the seed data                                                   *)
(***************************************************************************)
T_proj1 == <<"N","e","o","n"," ","T","o","k","y","o"," ","2","0","9","9">>
C_proj1 == <<"A"," ","c","y","b","e","r","p","u","n","k"," ","s","h","o","r","t"," ","f","i","l","m"," ","r","e","g","a","r","d","i","n","g"," ","a"," ","r","o","g","u","e"," ","A","I",".">>
T_char1 == <<"K","a","e","l","e","n"," ","(","P","r","o","t","a","g","o","n","i","s","t",")">>
C_char1 == <<"A"," ","g","r","i","t","t","y"," ","d","e","t","e","c","t","i","v","e"," ","w","i","t","h"," ","a"," ","r","o","b","o","t","i","c"," ","a","r","m",".">>
T_prompt1 == <<"K","a","e","l","e","n"," ","P","o","r","t","r","a","i","t"," ","P","r","o","m","p","t">>
C_prompt1 == <<"C","i","n","e","m","a","t","i","c"," ","p","o","r","t","r","a","i","t"," ","o","f"," ","a"," ","c","y","b","e","r","p","u","n","k"," ","d","e","t","e","c","t","i","v","e",","," ","n","e","o","n"," ","r","a","i","n",","," ","b","i","o","l","u","m","i","n","e","s","c","e","n","t"," ","t","a","t","t","o","o","s",","," ","8","k",","," ","u","n","r","e","a","l"," ","e","n","g","i","n","e"," ","5"," ","r","e","n","d","e","r"," ","-","-","a","r"," ","1","6",":","9">>
T_img1 == <<"K","a","e","l","e","n"," ","C","o","n","c","e","p","t"," ","A","r","t">>
T_vid1 == <<"O","p","e","n","i","n","g"," ","S","c","e","n","e"," ","A","n","i","m","a","t","i","c">>

Tags_proj1 == << <<"c","y","b","e","r","p","u","n","k">>, <<"s","c","i","-","f","i">>, <<"m","o","v","i","e">> >>
Tags_char1 == << <<"p","r","o","t","a","g","o","n","i","s","t">>, <<"m","a","l","e">>, <<"c","y","b","o","r","g">> >>
Tags_prompt1 == << <<"m","i","d","j","o","u","r","n","e","y">>, <<"v","6">>, <<"p","o","r","t","r","a","i","t">> >>
Tags_img1 == << <<"c","o","n","c","e","p","t">>, <<"a","r","t">>, <<"d","a","r","k">> >>
Tags_vid1 == << <<"a","n","i","m","a","t","i","c">>, <<"i","n","t","r","o">> >>

(* SEED_DATA: the collection of a first load. *)
SEED_DATA == <<
    [id |-> "proj-1", type |-> "project", title |-> T_proj1, content |-> C_proj1,
     tags |-> Tags_proj1, createdAt |-> "t0",
     relatedIds |-> <<"char-1", "vid-1", "prompt-1">>],
    [id |-> "char-1", type |-> "character", title |-> T_char1, content |-> C_char1,
     tags |-> Tags_char1, createdAt |-> "t0",
     relatedIds |-> <<"proj-1", "img-1">>],
    [id |-> "prompt-1", type |-> "prompt", title |-> T_prompt1, content |-> C_prompt1,
     tags |-> Tags_prompt1, createdAt |-> "t0",
     relatedIds |-> <<"proj-1", "img-1">>],
    [id |-> "img-1", type |-> "image", title |-> T_img1, mediaUrl |-> <<"https://picsum.photos/800/600">>,
     tags |-> Tags_img1, createdAt |-> "t0",
     relatedIds |-> <<"char-1", "prompt-1">>,
     metadata |-> [model |-> "Midjourney v6", dimensions |-> "1024x1024"]],
    [id |-> "vid-1", type |-> "video", title |-> T_vid1, mediaUrl |-> <<"https://picsum.photos/800/450">>,
     tags |-> Tags_vid1, createdAt |-> "t0",
     relatedIds |-> <<"proj-1">>,
     metadata |-> [duration |-> "00:45"]] >>

(***************************************************************************)
(* JavaScript built-ins used by the store                                  *)
(***************************************************************************)
UpperToLower == [A |-> "a", B |-> "b", C |-> "c", D |-> "d", E |-> "e", F |-> "f", G |-> "g", H |-> "h", I |-> "i", J |-> "j", K |-> "k", L |-> "l", M |-> "m", N |-> "n", O |-> "o", P |-> "p", Q |-> "q", R |-> "r", S |-> "s", T |-> "t", U |-> "u", V |-> "v", W |-> "w", X |-> "x", Y |-> "y", Z |-> "z"]

(* String.prototype.toLowerCase *)
toLowerCase(s) ==
    IF s = <<>> THEN <<>>
    ELSE [i \in 1..Len(s) |-> IF s[i] \in DOMAIN UpperToLower THEN UpperToLower[s[i]] ELSE s[i]]

(* String.prototype.includes: q occurs in s as a contiguous substring. *)
includes(s, q) ==
    \E i \in 0..(Len(s) - Len(q)) : SubSeq(s, i + 1, i + Len(q)) = q

(* Array.prototype.includes *)
arrIncludes(arr, x) == \E i \in 1..Len(arr) : arr[i] = x

(* A spread in which the fields the entity already has win. *)
spread_KeepExisting(e, updates) ==
    [f \in (DOMAIN e) \cup (DOMAIN updates) |-> IF f \in DOMAIN e THEN e[f] ELSE updates[f]]

(* Object spread { ...e, ...updates }: the fields of updates override. *)
spread(e, updates) ==
    [f \in (DOMAIN e) \cup (DOMAIN updates) |-> IF f \in DOMAIN updates THEN updates[f] ELSE e[f]]

(* The value of Array.prototype.find when no element matches. *)
undefined == [undefined |-> TRUE]

(***************************************************************************)
(* The store's operations, as functions of the collection they are given   *)
(***************************************************************************)
(* addEntity inserting at the end instead of the front. *)
addEntity_AtEnd(prev, entity) == prev \o <<entity>>

addEntity(prev, entity) == <<entity>> \o prev

updateEntity(prev, id, updates) ==
    [i \in 1..Len(prev) |-> IF prev[i].id = id THEN spread(prev[i], updates) ELSE prev[i]]

(* A deleteEntity that also takes the id out of the remaining relatedIds. *)
deleteEntity_Cascade(prev, id) ==
    LET kept == SelectSeq(prev, LAMBDA e : e.id # id)
    IN [i \in 1..Len(kept) |->
          [kept[i] EXCEPT !.relatedIds = SelectSeq(kept[i].relatedIds, LAMBDA x : x # id)]]

deleteEntity(prev, id) == SelectSeq(prev, LAMBDA e : e.id # id)

getEntity(ents, id) ==
    IF \E i \in 1..Len(ents) : ents[i].id = id
    THEN ents[CHOOSE i \in 1..Len(ents) :
                 /\ ents[i].id = id
                 /\ \A j \in 1..(i - 1) : ents[j].id # id]
    ELSE undefined

(* linkOne updating only the idA side. *)
linkOne_OneSided(e, idA, idB) ==
    IF e.id = idA /\ ~arrIncludes(e.relatedIds, idB)
    THEN [e EXCEPT !.relatedIds = Append(@, idB)]
    ELSE e

linkOne(e, idA, idB) ==
    IF e.id = idA /\ ~arrIncludes(e.relatedIds, idB)
    THEN [e EXCEPT !.relatedIds = Append(@, idB)]
    ELSE IF e.id = idB /\ ~arrIncludes(e.relatedIds, idA)
         THEN [e EXCEPT !.relatedIds = Append(@, idA)]
         ELSE e

(* A linkEntities whose result is the collection after the idA side only,  *)
(* as two successive updates would show it in between.                     *)
linkEntities_FirstHalf(prev, idA, idB) ==
    [i \in 1..Len(prev) |->
        IF prev[i].id = idA /\ ~arrIncludes(prev[i].relatedIds, idB)
        THEN [prev[i] EXCEPT !.relatedIds = Append(prev[i].relatedIds, idB)]
        ELSE prev[i]]

linkEntities(prev, idA, idB) == [i \in 1..Len(prev) |-> linkOne(prev[i], idA, idB)]

(* searchMatch comparing the title without lower-casing it. *)
searchMatch_TitleCaseSensitive(e, lowerQ) ==
    \/ includes(e.title, lowerQ)
    \/ \E k \in 1..Len(e.tags) : includes(toLowerCase(e.tags[k]), lowerQ)
    \/ ("content" \in DOMAIN e /\ e.content # <<>> /\ includes(toLowerCase(e.content), lowerQ))

(* The predicate of searchEntities' filter for one entity. *)
searchMatch(e, lowerQ) ==
    \/ includes(toLowerCase(e.title), lowerQ)
    \/ \E k \in 1..Len(e.tags) : includes(toLowerCase(e.tags[k]), lowerQ)
    \/ ("content" \in DOMAIN e /\ e.content # <<>> /\ includes(toLowerCase(e.content), lowerQ))

searchEntities(ents, query) ==
    SelectSeq(ents, LAMBDA e : searchMatch(e, toLowerCase(query)))

(* MainLayout: the list the grid view shows. *)
filteredData(ents, query) ==
    IF query # <<>> THEN searchEntities(ents, query) ELSE ents

(***************************************************************************)
(* NetworkGraph: nodes and links derived from the collection               *)
(***************************************************************************)
graphGroup(type) == IF type = "project" THEN 1 ELSE IF type = "character" THEN 2 ELSE 3

graphNodes(data) ==
    [i \in 1..Len(data) |-> [id |-> data[i].id, group |-> graphGroup(data[i].type),
                             label |-> data[i].title, type |-> data[i].type]]

(* linkExists looking for the link in the source-to-target direction only. *)
linkExists_OneDirection(links, sourceId, targetId) ==
    \E k \in 1..Len(links) : links[k].source = sourceId /\ links[k].target = targetId

(* links.find(...): a link between the two ids, in either direction. *)
linkExists(links, sourceId, targetId) ==
    \E k \in 1..Len(links) :
        \/ (links[k].source = sourceId /\ links[k].target = targetId)
        \/ (links[k].source = targetId /\ links[k].target = sourceId)

(* The body of the inner forEach for one targetId. *)
pushLink(links, data, sourceId, targetId) ==
    IF \E k \in 1..Len(data) : data[k].id = targetId
    THEN IF ~linkExists(links, sourceId, targetId)
         THEN Append(links, [source |-> sourceId, target |-> targetId, value |-> 1])
         ELSE links
    ELSE links

RECURSIVE forEachTarget(_, _, _, _)
forEachTarget(links, data, source, j) ==
    IF j > Len(source.relatedIds) THEN links
    ELSE forEachTarget(pushLink(links, data, source.id, source.relatedIds[j]), data, source, j + 1)

RECURSIVE forEachSource(_, _, _)
forEachSource(links, data, i) ==
    IF i > Len(data) THEN links
    ELSE forEachSource(forEachTarget(links, data, data[i], 1), data, i + 1)

graphLinks(data) == forEachSource(<<>>, data, 1)

(* entities.reduce((acc, e) => acc + e.relatedIds.length, 0) from index i   *)
(* on; the 'Links' figure of the graph view is this sum divided by 2.      *)
RECURSIVE relatedIdsTotal(_, _)
relatedIdsTotal(ents, i) ==
    IF i > Len(ents) THEN 0 ELSE Len(ents[i].relatedIds) + relatedIdsTotal(ents, i + 1)

(***************************************************************************)
(* Persistence under the key 'nexus_data'                                  *)
(*                                                                         *)
(* A value of the key is null (key absent), the empty string, a string     *)
(* that is not JSON, or the JSON text of a value.  An entity holds strings, *)
(* arrays and plain objects only, and a field whose value would be         *)
(* undefined is a field the record does not have, so the JSON text of a    *)
(* collection determines the collection: the text is modelled as the value *)
(* it denotes, marked as text.                                             *)
(***************************************************************************)
null == [kind |-> "null"]

EmptyText == [kind |-> "empty"]

CorruptText == [kind |-> "corrupt"]

JSONstringify(ents) == [kind |-> "json", value |-> ents]

(* JSON.parse throws a SyntaxError on a text that is not JSON. *)
JSONparseThrows(text) == text.kind # "json"

JSONparse(text) == text.value

(* saved ? ... : ... -- null and the empty string are falsy. *)
truthy(saved) == saved.kind \in {"json", "corrupt"}

(* The initializer of the entities state. *)
initialEntities(saved) == IF truthy(saved) THEN JSONparse(saved) ELSE SEED_DATA

(* The effect that depends on [entities], with a dependency that never     *)
(* changes: nothing is written.                                            *)
persistEffect_Skipped(ents, stored) == stored

(* The effect that depends on [entities]: the new value of the key. *)
persistEffect(ents, stored) == JSONstringify(ents)

(***************************************************************************)
(* The AI adapter (services/geminiService)                                 *)
(*                                                                         *)
(* An image string is a sequence of tokens; a data URI is the tokens       *)
(* "data:", "image/", the subtype, ";base64," followed by the payload.     *)
(* The outcome of ai.models.generateContent is a rejection or a response   *)
(* whose text is null, empty, not JSON, or the JSON text of a value.       *)
(* A call of an adapter function has returned a value, has raised, or is   *)
(* awaiting the service with a request sent.                               *)
(***************************************************************************)
isAiEnabled(apiKeySet) == apiKeySet

(* getClient throws when the API key is not set. *)
getClientThrows(apiKeySet) == ~apiKeySet

(* base64Image.replace(/^data:image\/(png|jpeg|jpg|webp);base64,/, "") *)
stripDataUri(base64Image) ==
    IF /\ Len(base64Image) >= 4
       /\ base64Image[1] = "data:"
       /\ base64Image[2] = "image/"
       /\ base64Image[3] \in {"png", "jpeg", "jpg", "webp"}
       /\ base64Image[4] = ";base64,"
    THEN SubSeq(base64Image, 5, Len(base64Image))
    ELSE base64Image

NeutralAnalysis == [title |-> <<>>, tags |-> <<>>, description |-> <<>>]

returned(value) == [pc |-> "returned", value |-> value]

raised(error) == [pc |-> "raised", error |-> error]

awaiting(fn, request) == [pc |-> "awaiting", fn |-> fn, request |-> request]

(* analyzeImageForTags up to its await. *)
analyzeBegin(apiKeySet, base64Image) ==
    IF ~isAiEnabled(apiKeySet) THEN returned(NeutralAnalysis)
    ELSE IF getClientThrows(apiKeySet) THEN returned(NeutralAnalysis)
    ELSE awaiting("analyzeImageForTags",
                  [model |-> "gemini-2.5-flash-image", data |-> stripDataUri(base64Image)])

(* The rest of analyzeImageForTags' try block, given the service outcome. *)
analyzeTry(outcome) ==
    IF outcome.kind = "reject" THEN raised("service error")
    ELSE IF truthy(outcome.text)
         THEN IF JSONparseThrows(outcome.text) THEN raised("SyntaxError")
              ELSE returned(JSONparse(outcome.text))
         ELSE raised("No text returned from API")

(* analyzeImageForTags after its await, without the catch block. *)
analyzeEnd_NoCatch(outcome) == analyzeTry(outcome)

(* analyzeImageForTags after its await: the catch block returns the        *)
(* neutral result.                                                         *)
analyzeEnd(outcome) ==
    IF analyzeTry(outcome).pc = "raised" THEN returned(NeutralAnalysis) ELSE analyzeTry(outcome)

(* suggestConnections without the test of allTitles.length. *)
suggestBegin_NoEmptyTest(apiKeySet, entityTitle, entityContent, allTitles) ==
    IF ~isAiEnabled(apiKeySet) THEN returned(<<>>)
    ELSE awaiting("suggestConnections",
                  [model |-> "gemini-2.5-flash",
                   prompt |-> [entityTitle |-> entityTitle, entityContent |-> entityContent,
                               allTitles |-> allTitles]])

(* suggestConnections up to its await. *)
suggestBegin(apiKeySet, entityTitle, entityContent, allTitles) ==
    IF ~isAiEnabled(apiKeySet) \/ Len(allTitles) = 0 THEN returned(<<>>)
    ELSE IF getClientThrows(apiKeySet) THEN returned(<<>>)
    ELSE awaiting("suggestConnections",
                  [model |-> "gemini-2.5-flash",
                   prompt |-> [entityTitle |-> entityTitle, entityContent |-> entityContent,
                               allTitles |-> allTitles]])

(* The rest of suggestConnections' try block: result.relatedTitles || []. *)
suggestTry(outcome) ==
    IF outcome.kind = "reject" THEN raised("service error")
    ELSE IF truthy(outcome.text)
         THEN IF JSONparseThrows(outcome.text) THEN raised("SyntaxError")
              ELSE IF "relatedTitles" \in DOMAIN JSONparse(outcome.text)
                   THEN returned(JSONparse(outcome.text).relatedTitles)
                   ELSE returned(<<>>)
         ELSE returned(<<>>)

(* suggestConnections after its await: the catch block returns []. *)
suggestEnd(outcome) ==
    IF suggestTry(outcome).pc = "raised" THEN returned(<<>>) ELSE suggestTry(outcome)

(***************************************************************************)
(* The entity modal (components/EntityModal)                               *)
(*                                                                         *)
(* The component stays mounted while no entity is selected, so its state   *)
(* outlives the closing of the modal.  getEntity is a new function after   *)
(* every setEntities (useCallback on [entities]), so the sync effect runs  *)
(* after every store operation as well as after a change of entityId.      *)
(***************************************************************************)
initialModal ==
    [linkSearch |-> <<>>, isEditing |-> FALSE, editTitle |-> <<>>, editContent |-> <<>>,
     editTags |-> <<>>]

(* e.tags.join(', ') *)
RECURSIVE joinTags(_)
joinTags(tags) ==
    IF tags = <<>> THEN <<>>
    ELSE IF Len(tags) = 1 THEN tags[1]
    ELSE tags[1] \o <<",", " ">> \o joinTags(Tail(tags))

(* String.prototype.split(',') *)
RECURSIVE split(_, _)
split(text, piece) ==
    IF text = <<>> THEN <<piece>>
    ELSE IF Head(text) = "," THEN <<piece>> \o split(Tail(text), <<>>)
    ELSE split(Tail(text), Append(piece, Head(text)))

(* String.prototype.trim *)
RECURSIVE trim(_)
trim(text) ==
    IF text = <<>> THEN <<>>
    ELSE IF Head(text) = " " THEN trim(Tail(text))
    ELSE IF text[Len(text)] = " " THEN trim(SubSeq(text, 1, Len(text) - 1))
    ELSE text

(* editTags.split(',').map(t => t.trim()).filter(Boolean) *)
tagsOf(editTags) ==
    SelectSeq([i \in 1..Len(split(editTags, <<>>)) |-> trim(split(editTags, <<>>)[i])],
              LAMBDA tag : tag # <<>>)

(* The effect on [entityId, getEntity]: the edit fields are set from the   *)
(* selected entity and the edit mode is left.                              *)
syncEffect(entityId, ents, m) ==
    IF entityId.kind = "id" /\ getEntity(ents, entityId.id) # undefined
    THEN [linkSearch |-> m.linkSearch,
          isEditing |-> FALSE,
          editTitle |-> getEntity(ents, entityId.id).title,
          editContent |-> IF "content" \in DOMAIN getEntity(ents, entityId.id)
                          THEN getEntity(ents, entityId.id).content ELSE <<>>,
          editTags |-> joinTags(getEntity(ents, entityId.id).tags)]
    ELSE m

(***************************************************************************)
(* Inputs                                                                  *)
(***************************************************************************)
SeedIds == {"proj-1", "char-1", "prompt-1", "img-1", "vid-1"}

(* Ids handed to the store: those of the seed, a fresh one, and one that   *)
(* no entity ever has.                                                     *)
Ids == SeedIds \cup {"new-1", "ghost"}

(* handleCreatePrompt's entity. *)
NewPrompt ==
    [id |-> "new-1", type |-> "prompt", title |-> <<"N","e","w"," ","P","r","o","m","p","t">>,
     content |-> <<>>, tags |-> << <<"d","r","a","f","t">> >>, createdAt |-> "t1",
     relatedIds |-> <<>>]

(* handleFileUpload's entity for photo.png when the AI service is off. *)
NewImage ==
    [id |-> "new-1", type |-> "image", title |-> <<"p","h","o","t","o">>,
     content |-> <<>>, mediaUrl |-> <<"data:", "image/", "png", ";base64,", "iVBORw0KGgo", "AAAA">>,
     tags |-> << <<"i","m","p","o","r","t","e","d">> >>, createdAt |-> "t1",
     relatedIds |-> <<>>]

(* An entity whose id is the id of a seed entity. *)
ClashingEntity ==
    [id |-> "char-1", type |-> "tool", title |-> <<"K","i","t">>,
     tags |-> <<>>, createdAt |-> "t1", relatedIds |-> <<>>]

AddInputs == {NewPrompt, NewImage, ClashingEntity}

(* Values of updateEntity's updates: Partial<Entity>. *)
UpdateInputs ==
    { [title |-> <<"K","i","t">>, content |-> <<>>, tags |-> << <<"N","e","o","n">> >>],
      [title |-> <<"p","h","o","t","o">>],
      [relatedIds |-> <<>>],
      [relatedIds |-> <<"proj-1", "proj-1", "ghost">>],
      [id |-> "char-1"],
      [type |-> "tool", createdAt |-> "t9"] }

Queries ==
    { <<>>, <<" ">>, <<"n","e","o","n">>, <<"K","A","E","L","E","N">>,
      <<"d","a","r","k">>, <<"r","o","g","u","e">>, <<"z","z","z">> }

(***************************************************************************)
(* Initial state and actions                                               *)
(***************************************************************************)
Init ==
    /\ entities = SEED_DATA
    /\ searchQuery = <<>>
    /\ lastOp = [op |-> "init"]
    /\ steps = 0
    /\ storage = persistEffect(SEED_DATA, null)
    /\ app = "running"
    /\ aiEnabled = FALSE
    /\ call = [pc |-> "idle"]
    /\ requests = <<>>
    /\ imports = <<>>
    /\ selectedEntityId = null
    /\ isProcessing = FALSE
    /\ isImageSearching = FALSE
    /\ imageSearch = <<>>
    /\ modal = initialModal

AddEntity(entity) ==
    /\ app = "running"
    /\ steps < MaxSteps
    /\ entities' = addEntity(entities, entity)
    /\ storage' = persistEffect(entities', storage)
    /\ lastOp' = [op |-> "addEntity", entity |-> entity]
    /\ steps' = steps + 1
    /\ modal' = syncEffect(selectedEntityId, entities', modal)
    /\ UNCHANGED <<searchQuery, app, adapterVars, importVars, searchVars>>

UpdateEntity(id, updates) ==
    /\ app = "running"
    /\ steps < MaxSteps
    /\ entities' = updateEntity(entities, id, updates)
    /\ storage' = persistEffect(entities', storage)
    /\ lastOp' = [op |-> "updateEntity", id |-> id, updates |-> updates]
    /\ steps' = steps + 1
    /\ modal' = syncEffect(selectedEntityId, entities', modal)
    /\ UNCHANGED <<searchQuery, app, adapterVars, importVars, searchVars>>

DeleteEntity(id) ==
    /\ app = "running"
    /\ steps < MaxSteps
    /\ entities' = deleteEntity(entities, id)
    /\ storage' = persistEffect(entities', storage)
    /\ lastOp' = [op |-> "deleteEntity", id |-> id]
    /\ steps' = steps + 1
    /\ modal' = syncEffect(selectedEntityId, entities', modal)
    /\ UNCHANGED <<searchQuery, app, adapterVars, importVars, searchVars>>

LinkEntities(idA, idB) ==
    /\ app = "running"
    /\ steps < MaxSteps
    /\ entities' = linkEntities(entities, idA, idB)
    /\ storage' = persistEffect(entities', storage)
    /\ lastOp' = [op |-> "linkEntities", idA |-> idA, idB |-> idB]
    /\ steps' = steps + 1
    /\ modal' = syncEffect(selectedEntityId, entities', modal)
    /\ UNCHANGED <<searchQuery, app, adapterVars, importVars, searchVars>>

SetSearchQuery(q) ==
    /\ app = "running"
    /\ steps < MaxSteps
    /\ searchQuery' = q
    /\ lastOp' = [op |-> "setSearchQuery", query |-> q]
    /\ steps' = steps + 1
    /\ UNCHANGED <<entities, storage, app, adapterVars, importVars, searchVars, modal>>

(* EntityModal for entityId: the X button of the connection to relId.  The *)
(* button exists for each id of entity.relatedIds that getEntity finds.    *)
RemoveConnection(entityId, relId) ==
    /\ app = "running"
    /\ steps < MaxSteps
    /\ getEntity(entities, entityId) # undefined
    /\ arrIncludes(getEntity(entities, entityId).relatedIds, relId)
    /\ getEntity(entities, relId) # undefined
    /\ entities' = linkEntities(entities, entityId, relId)
    /\ storage' = persistEffect(entities', storage)
    /\ lastOp' = [op |-> "removeConnection", idA |-> entityId, idB |-> relId]
    /\ steps' = steps + 1
    /\ modal' = syncEffect(selectedEntityId, entities', modal)
    /\ UNCHANGED <<searchQuery, app, adapterVars, importVars, searchVars>>

(* StoreProvider's first render and the first run of its effect. *)
Mount ==
    /\ app = "unmounted"
    /\ IF truthy(storage) /\ JSONparseThrows(storage)
       THEN /\ app' = "crashed"
            /\ UNCHANGED <<entities, storage>>
       ELSE /\ app' = "running"
            /\ entities' = initialEntities(storage)
            /\ storage' = persistEffect(entities', storage)
    /\ lastOp' = [op |-> "mount", saved |-> storage]
    /\ UNCHANGED <<searchQuery, steps, adapterVars, importVars, searchVars, modal>>

(* The page is closed: the state of the components is gone, the key stays. *)
Reload ==
    /\ app = "running"
    /\ app' = "unmounted"
    /\ entities' = <<>>
    /\ searchQuery' = <<>>
    /\ lastOp' = [op |-> "reload"]
    /\ UNCHANGED <<storage, steps, adapterVars, importVars, searchVars, modal>>

Next ==
    \/ \E id \in Ids : DeleteEntity(id)
    \/ \E idA \in Ids, idB \in Ids : LinkEntities(idA, idB)
    \/ \E entityId \in Ids, relId \in Ids : RemoveConnection(entityId, relId)
    \/ \E entity \in AddInputs : AddEntity(entity)
    \/ \E id \in Ids, updates \in UpdateInputs : UpdateEntity(id, updates)
    \/ \E q \in Queries : SetSearchQuery(q)

Spec == Init /\ [][Next]_vars

(***************************************************************************)
(* Start-up: the page is opened with some value under the key, used, and   *)
(* closed and opened again.                                                *)
(***************************************************************************)
StoredValues ==
    { null, EmptyText, CorruptText, JSONstringify(SEED_DATA),
      JSONstringify(deleteEntity(SEED_DATA, "char-1")) }

InitStartup ==
    /\ app = "unmounted"
    /\ storage \in StoredValues
    /\ entities = <<>>
    /\ searchQuery = <<>>
    /\ lastOp = [op |-> "init"]
    /\ steps = 0
    /\ aiEnabled = FALSE
    /\ call = [pc |-> "idle"]
    /\ requests = <<>>
    /\ imports = <<>>
    /\ selectedEntityId = null
    /\ isProcessing = FALSE
    /\ isImageSearching = FALSE
    /\ imageSearch = <<>>
    /\ modal = initialModal

NextStartup ==
    \/ Mount
    \/ Reload
    \/ \E id \in {"char-1", "img-1"} : DeleteEntity(id)
    \/ \E idA \in {"proj-1", "img-1"}, idB \in {"img-1", "vid-1", "new-1"} : LinkEntities(idA, idB)
    \/ \E entity \in {NewPrompt, NewImage} : AddEntity(entity)
    \/ \E id \in {"proj-1", "vid-1"}, updates \in UpdateInputs : UpdateEntity(id, updates)

SpecStartup == InitStartup /\ [][NextStartup]_vars

(***************************************************************************)
(* The adapter functions called on their own                               *)
(***************************************************************************)
PngDataUri == <<"data:", "image/", "png", ";base64,", "iVBORw0KGgo", "AAAA">>

GifDataUri == <<"data:", "image/", "gif", ";base64,", "R0lGODlh">>

BareBase64 == <<"iVBORw0KGgo", "AAAA">>

MalformedImage == <<"data:", "text/", "plain", ",", "not an image">>

ImageInputs == {PngDataUri, GifDataUri, BareBase64, MalformedImage}

NeonAlley == <<"N","e","o","n"," ","A","l","l","e","y">>

FullAnalysis ==
    [title |-> NeonAlley, tags |-> << <<"n","e","o","n">>, <<"a","l","l","e","y">> >>,
     description |-> <<"A"," ","w","e","t"," ","a","l","l","e","y">>]

(* Responses that do not follow the schema: an object without tags and     *)
(* description, and (in AnalysisOutcomes) the JSON text null, which        *)
(* JSON.parse turns into the value null.                                   *)
PartialAnalysis == [title |-> NeonAlley]

AnalysisOutcomes ==
    { [kind |-> "reject"],
      [kind |-> "response", text |-> null],
      [kind |-> "response", text |-> EmptyText],
      [kind |-> "response", text |-> CorruptText],
      [kind |-> "response", text |-> JSONstringify(FullAnalysis)],
      [kind |-> "response", text |-> JSONstringify(PartialAnalysis)],
      [kind |-> "response", text |-> JSONstringify(null)] }

TitleLists == { <<>>, <<T_proj1>>, <<T_proj1, T_char1, T_img1>> }

SuggestOutcomes ==
    { [kind |-> "reject"],
      [kind |-> "response", text |-> null],
      [kind |-> "response", text |-> CorruptText],
      [kind |-> "response", text |-> JSONstringify([relatedTitles |-> <<T_proj1>>])],
      [kind |-> "response", text |-> JSONstringify([relatedTitles |-> <<T_char1, NeonAlley>>])],
      [kind |-> "response", text |-> JSONstringify([relatedTitles |-> <<>>])],
      [kind |-> "response", text |-> JSONstringify([other |-> <<>>])] }

InitAdapter ==
    /\ entities = SEED_DATA
    /\ searchQuery = <<>>
    /\ lastOp = [op |-> "init"]
    /\ steps = 0
    /\ storage = persistEffect(SEED_DATA, null)
    /\ app = "running"
    /\ aiEnabled \in BOOLEAN
    /\ call = [pc |-> "idle"]
    /\ requests = <<>>
    /\ imports = <<>>
    /\ selectedEntityId = null
    /\ isProcessing = FALSE
    /\ isImageSearching = FALSE
    /\ imageSearch = <<>>
    /\ modal = initialModal

(* The request of a call that awaits the service has been sent. *)
sent(reqs, c) == IF c.pc = "awaiting" THEN Append(reqs, c.request) ELSE reqs

CallAnalyze(base64Image) ==
    /\ call.pc # "awaiting"
    /\ steps < MaxSteps
    /\ call' = analyzeBegin(aiEnabled, base64Image)
    /\ requests' = sent(requests, call')
    /\ lastOp' = [op |-> "analyzeImageForTags", base64Image |-> base64Image]
    /\ steps' = steps + 1
    /\ UNCHANGED <<entities, searchQuery, storage, app, aiEnabled, importVars, searchVars, modal>>

CallSuggest(entityTitle, entityContent, allTitles) ==
    /\ call.pc # "awaiting"
    /\ steps < MaxSteps
    /\ call' = suggestBegin(aiEnabled, entityTitle, entityContent, allTitles)
    /\ requests' = sent(requests, call')
    /\ lastOp' = [op |-> "suggestConnections", allTitles |-> allTitles]
    /\ steps' = steps + 1
    /\ UNCHANGED <<entities, searchQuery, storage, app, aiEnabled, importVars, searchVars, modal>>

(* generateContent settles and the awaiting adapter function runs on. *)
ServiceSettles(outcome) ==
    /\ call.pc = "awaiting"
    /\ call' = IF call.fn = "analyzeImageForTags" THEN analyzeEnd(outcome) ELSE suggestEnd(outcome)
    /\ lastOp' = [op |-> "serviceSettles", fn |-> call.fn, outcome |-> outcome]
    /\ UNCHANGED <<entities, searchQuery, storage, app, aiEnabled, requests, steps, importVars, searchVars, modal>>

NextAdapter ==
    \/ \E base64Image \in ImageInputs : CallAnalyze(base64Image)
    \/ \E allTitles \in TitleLists : CallSuggest(NeonAlley, <<>>, allTitles)
    \/ \E outcome \in AnalysisOutcomes \cup SuggestOutcomes : ServiceSettles(outcome)

SpecAdapter == InitAdapter /\ [][NextAdapter]_vars

(***************************************************************************)
(* The image import of MainLayout (handleFileUpload)                       *)
(*                                                                         *)
(* A run of the handler keeps the values of the render it was created in:  *)
(* the entities array and aiAvailable.  It goes through the file reader,   *)
(* the await of analyzeImageForTags and the await of suggestConnections;   *)
(* store operations of the user may happen in between.                     *)
(***************************************************************************)
MaxInterference == 2

(* The ids uuidv4 hands out, one per run of the handler. *)
ImportIds == <<"imp-1">>

PhotoPng == [name |-> <<"p","h","o","t","o",".","p","n","g">>, dataUrl |-> PngDataUri]

ScanGif == [name |-> <<"s","c","a","n">>, dataUrl |-> GifDataUri]

Files == {PhotoPng, ScanGif}

(* file.name.split('.')[0] *)
RECURSIVE beforeFirstDot(_)
beforeFirstDot(name) ==
    IF name = <<>> \/ Head(name) = "." THEN <<>>
    ELSE <<Head(name)>> \o beforeFirstDot(Tail(name))

DefaultAnalysis(file) == [title |-> file.name, tags |-> <<>>, description |-> <<>>]

LocalFallback(file) ==
    [title |-> beforeFirstDot(file.name), tags |-> << <<"i","m","p","o","r","t","e","d">> >>,
     description |-> <<>>]

(* The entity built from the analysis: analysis.title || file.name,        *)
(* analysis.description, analysis.tags || [].                              *)
newEntityOf(newId, file, analysis) ==
    LET base == [id |-> newId, type |-> "image",
                 title |-> IF "title" \in DOMAIN analysis /\ analysis.title # <<>>
                           THEN analysis.title ELSE file.name,
                 mediaUrl |-> file.dataUrl,
                 tags |-> IF "tags" \in DOMAIN analysis THEN analysis.tags ELSE <<>>,
                 createdAt |-> "now", relatedIds |-> <<>>]
    IN IF "description" \in DOMAIN analysis
       THEN spread(base, [content |-> analysis.description])
       ELSE base

(* entities.map(e => e.title) *)
titlesOf(ents) == [i \in 1..Len(ents) |-> ents[i].title]

(* A find that takes the first entity whatever its title. *)
findByTitle_First(ents, title) == IF ents = <<>> THEN undefined ELSE ents[1]

(* entities.find(e => e.title === title) *)
findByTitle(ents, title) ==
    IF \E i \in 1..Len(ents) : ents[i].title = title
    THEN ents[CHOOSE i \in 1..Len(ents) :
                /\ ents[i].title = title
                /\ \A j \in 1..(i - 1) : ents[j].title # title]
    ELSE undefined

(* relatedTitles.forEach(title => { ... if (target) linkEntities(newId, target.id) }) *)
RECURSIVE forEachRelatedTitle(_, _, _, _)
forEachRelatedTitle(prev, closure, newId, relatedTitles) ==
    IF relatedTitles = <<>> THEN prev
    ELSE forEachRelatedTitle(
             IF findByTitle(closure, Head(relatedTitles)) # undefined
             THEN linkEntities(prev, newId, findByTitle(closure, Head(relatedTitles)).id)
             ELSE prev,
             closure, newId, Tail(relatedTitles))

selected(id) == [kind |-> "id", id |-> id]

(* handleFileUpload up to reader.readAsDataURL and through its finally. *)
SelectFile(file) ==
    /\ app = "running"
    /\ Len(imports) < Len(ImportIds)
    /\ imports' = Append(imports, [pc |-> "reading", file |-> file, entities |-> entities,
                                   aiAvailable |-> isAiEnabled(aiEnabled)])
    /\ isProcessing' = FALSE
    /\ lastOp' = [op |-> "handleFileUpload", k |-> Len(imports) + 1]
    /\ UNCHANGED <<entities, searchQuery, steps, storage, app, adapterVars, selectedEntityId, searchVars, modal>>

(* onloadend from the analysis on: the entity is created and added, then   *)
(* the suggestions are asked for; without an await pending the links are   *)
(* written and the modal is opened.  Reading analysis.title of the value   *)
(* null throws a TypeError outside every try block: the callback ends.     *)
ContinueWithAnalysis(k, analysis) ==
    LET run == imports[k]
        newEntity == newEntityOf(ImportIds[k], run.file, analysis)
        added == addEntity(entities, newEntity)
        s == suggestBegin(aiEnabled, newEntity.title,
                          IF "content" \in DOMAIN newEntity THEN newEntity.content ELSE <<>>,
                          titlesOf(run.entities))
    IN IF analysis = null
       THEN /\ imports' = [imports EXCEPT ![k].pc = "failed"]
            /\ UNCHANGED <<entities, requests, selectedEntityId, modal>>
       ELSE IF run.aiAvailable /\ s.pc = "awaiting"
       THEN /\ entities' = added
            /\ requests' = Append(requests, s.request)
            /\ imports' = [imports EXCEPT ![k].pc = "suggesting"]
            /\ UNCHANGED selectedEntityId
            /\ modal' = syncEffect(selectedEntityId, entities', modal)
       ELSE /\ entities' = IF run.aiAvailable /\ s.pc = "returned"
                           THEN forEachRelatedTitle(added, run.entities, ImportIds[k], s.value)
                           ELSE added
            /\ imports' = [imports EXCEPT ![k].pc = "done"]
            /\ selectedEntityId' = selected(ImportIds[k])
            /\ modal' = syncEffect(selectedEntityId', entities', modal)
            /\ UNCHANGED requests

(* reader.onloadend up to the await of analyzeImageForTags, or to its end  *)
(* with the local fallback.                                                *)
FileLoaded(k) ==
    /\ app = "running"
    /\ k \in 1..Len(imports)
    /\ imports[k].pc = "reading"
    /\ LET run == imports[k]
           a == analyzeBegin(aiEnabled, run.file.dataUrl)
       IN IF ~run.aiAvailable
          THEN /\ ContinueWithAnalysis(k, LocalFallback(run.file))
               /\ storage' = persistEffect(entities', storage)
          ELSE IF a.pc = "awaiting"
          THEN /\ imports' = [imports EXCEPT ![k].pc = "analyzing"]
               /\ requests' = Append(requests, a.request)
               /\ UNCHANGED <<entities, storage, selectedEntityId, modal>>
          ELSE /\ ContinueWithAnalysis(k, IF a.pc = "returned" THEN a.value
                                           ELSE DefaultAnalysis(run.file))
               /\ storage' = persistEffect(entities', storage)
    /\ lastOp' = [op |-> "fileLoaded", k |-> k]
    /\ UNCHANGED <<searchQuery, steps, app, aiEnabled, call, isProcessing, searchVars>>

(* The await of analyzeImageForTags ends. *)
AnalysisSettles(k, outcome) ==
    /\ app = "running"
    /\ k \in 1..Len(imports)
    /\ imports[k].pc = "analyzing"
    /\ ContinueWithAnalysis(k, IF analyzeEnd(outcome).pc = "returned"
                                THEN analyzeEnd(outcome).value
                                ELSE DefaultAnalysis(imports[k].file))
    /\ storage' = persistEffect(entities', storage)
    /\ lastOp' = [op |-> "analysisSettles", k |-> k, outcome |-> outcome]
    /\ UNCHANGED <<searchQuery, steps, app, aiEnabled, call, isProcessing, searchVars>>

(* The await of suggestConnections ends. *)
SuggestionsSettle(k, outcome) ==
    /\ app = "running"
    /\ k \in 1..Len(imports)
    /\ imports[k].pc = "suggesting"
    /\ LET relatedTitles == IF suggestEnd(outcome).pc = "returned"
                            THEN suggestEnd(outcome).value ELSE <<>>
       IN /\ entities' = forEachRelatedTitle(entities, imports[k].entities, ImportIds[k],
                                             relatedTitles)
          /\ lastOp' = [op |-> "suggestionsSettle", k |-> k, relatedTitles |-> relatedTitles]
    /\ storage' = persistEffect(entities', storage)
    /\ imports' = [imports EXCEPT ![k].pc = "done"]
    /\ selectedEntityId' = selected(ImportIds[k])
    /\ modal' = IF entities' # entities \/ selectedEntityId' # selectedEntityId
                THEN syncEffect(selectedEntityId', entities', modal)
                ELSE modal
    /\ UNCHANGED <<searchQuery, steps, app, adapterVars, isProcessing, searchVars>>

InitImport ==
    /\ entities = SEED_DATA
    /\ searchQuery = <<>>
    /\ lastOp = [op |-> "init"]
    /\ steps = 0
    /\ storage = persistEffect(SEED_DATA, null)
    /\ app = "running"
    /\ aiEnabled \in BOOLEAN
    /\ call = [pc |-> "idle"]
    /\ requests = <<>>
    /\ imports = <<>>
    /\ selectedEntityId = null
    /\ isProcessing = FALSE
    /\ isImageSearching = FALSE
    /\ imageSearch = <<>>
    /\ modal = initialModal

NextImport ==
    \/ \E file \in Files : SelectFile(file)
    \/ \E k \in 1..Len(ImportIds) : FileLoaded(k)
    \/ \E k \in 1..Len(ImportIds), outcome \in AnalysisOutcomes : AnalysisSettles(k, outcome)
    \/ \E k \in 1..Len(ImportIds), outcome \in SuggestOutcomes : SuggestionsSettle(k, outcome)
    \/ \E id \in {"proj-1", "imp-1"} : steps < MaxInterference /\ DeleteEntity(id)
    \/ \E updates \in {[title |-> <<"K","i","t">>], [title |-> NeonAlley]} :
           steps < MaxInterference /\ UpdateEntity("char-1", updates)
    \/ steps < MaxInterference /\ AddEntity(NewPrompt)

SpecImport == InitImport /\ [][NextImport]_vars

(***************************************************************************)
(* The image search of MainLayout (handleImageSearch)                      *)
(*                                                                         *)
(* The hidden file input is not disabled while a search is running, so     *)
(* several runs of the handler may be in flight.                           *)
(***************************************************************************)
(* analysis.tags.slice(0, 3) *)
firstThree(tags) == SubSeq(tags, 1, IF Len(tags) < 3 THEN Len(tags) ELSE 3)

(* queryParts.join(' ') *)
RECURSIVE joinWords(_)
joinWords(parts) ==
    IF parts = <<>> THEN <<>>
    ELSE IF Len(parts) = 1 THEN parts[1]
    ELSE parts[1] \o <<" ">> \o joinWords(Tail(parts))

(* handleImageSearch up to reader.readAsDataURL. *)
HandleImageSearch(file) ==
    /\ app = "running"
    /\ Len(imageSearch) < MaxSteps
    /\ IF ~isAiEnabled(aiEnabled)
       THEN /\ lastOp' = [op |-> "handleImageSearch", alerted |-> TRUE]
            /\ UNCHANGED searchVars
       ELSE /\ lastOp' = [op |-> "handleImageSearch", alerted |-> FALSE]
            /\ isImageSearching' = TRUE
            /\ imageSearch' = Append(imageSearch, [pc |-> "reading", file |-> file])
    /\ UNCHANGED <<entities, searchQuery, steps, storage, app, adapterVars, importVars, modal>>

(* onloadend from the analysis on.  Reading analysis.tags of null, or      *)
(* calling slice on a tags that is undefined, throws a TypeError that      *)
(* nothing catches: the callback ends there.                               *)
SearchWithAnalysis(k, result) ==
    IF result.pc = "returned" /\ result.value # null /\ "tags" \in DOMAIN result.value
    THEN /\ searchQuery' = joinWords(firstThree(result.value.tags))
         /\ isImageSearching' = FALSE
         /\ imageSearch' = [imageSearch EXCEPT ![k].pc = "done"]
    ELSE /\ imageSearch' = [imageSearch EXCEPT ![k].pc = "failed"]
         /\ UNCHANGED <<searchQuery, isImageSearching>>

(* reader.onloadend up to the await of analyzeImageForTags. *)
SearchFileLoaded(k) ==
    /\ app = "running"
    /\ k \in 1..Len(imageSearch)
    /\ imageSearch[k].pc = "reading"
    /\ LET a == analyzeBegin(aiEnabled, imageSearch[k].file.dataUrl)
       IN IF a.pc = "awaiting"
          THEN /\ imageSearch' = [imageSearch EXCEPT ![k].pc = "analyzing"]
               /\ requests' = Append(requests, a.request)
               /\ UNCHANGED <<searchQuery, isImageSearching>>
          ELSE /\ SearchWithAnalysis(k, a)
               /\ UNCHANGED requests
    /\ lastOp' = [op |-> "searchFileLoaded", k |-> k]
    /\ UNCHANGED <<entities, steps, storage, app, aiEnabled, call, importVars, modal>>

(* The await of analyzeImageForTags ends. *)
SearchAnalysisSettles(k, outcome) ==
    /\ app = "running"
    /\ k \in 1..Len(imageSearch)
    /\ imageSearch[k].pc = "analyzing"
    /\ SearchWithAnalysis(k, analyzeEnd(outcome))
    /\ lastOp' = [op |-> "searchAnalysisSettles", k |-> k, outcome |-> outcome]
    /\ UNCHANGED <<entities, steps, storage, app, adapterVars, importVars, modal>>

SearchFileLoads == \E k \in 1..MaxSteps : SearchFileLoaded(k)

SearchServiceSettles ==
    \E k \in 1..MaxSteps, outcome \in AnalysisOutcomes : SearchAnalysisSettles(k, outcome)

NextImageSearch ==
    \/ \E file \in Files : HandleImageSearch(file)
    \/ SearchFileLoads
    \/ SearchServiceSettles

(* The file reader ends its read and the service call settles. *)
SpecImageSearch ==
    /\ InitImport
    /\ [][NextImageSearch]_vars
    /\ WF_vars(SearchFileLoads)
    /\ WF_vars(SearchServiceSettles)

(***************************************************************************)
(* The entity modal in use                                                 *)
(*                                                                         *)
(* The modal shows when an entity is selected and getEntity finds it; it   *)
(* covers the page, so an entity is opened from the page only while no     *)
(* modal shows.                                                            *)
(***************************************************************************)
modalShows == selectedEntityId.kind = "id" /\ getEntity(entities, selectedEntityId.id) # undefined

(* The entity the modal renders. *)
modalEntity == getEntity(entities, selectedEntityId.id)

(* A card, a project column item or a graph node is clicked. *)
OpenEntity(id) ==
    /\ app = "running"
    /\ ~modalShows
    /\ getEntity(entities, id) # undefined
    /\ selectedEntityId' = selected(id)
    /\ modal' = IF selectedEntityId' # selectedEntityId
                THEN syncEffect(selectedEntityId', entities, modal)
                ELSE modal
    /\ lastOp' = [op |-> "openEntity", id |-> id]
    /\ UNCHANGED <<entities, searchQuery, steps, storage, app, adapterVars, imports,
                   isProcessing, searchVars>>

(* onClose *)
CloseModal ==
    /\ app = "running"
    /\ modalShows
    /\ selectedEntityId' = null
    /\ lastOp' = [op |-> "onClose"]
    /\ UNCHANGED <<entities, searchQuery, steps, storage, app, adapterVars, imports,
                   isProcessing, searchVars, modal>>

(* The edit button while not editing: setIsEditing(true). *)
StartEdit ==
    /\ app = "running"
    /\ modalShows
    /\ ~modal.isEditing
    /\ modal' = [modal EXCEPT !.isEditing = TRUE]
    /\ lastOp' = [op |-> "startEdit"]
    /\ UNCHANGED <<entities, searchQuery, steps, storage, app, adapterVars, importVars, searchVars>>

(* The inputs shown in edit mode. *)
EditField(field, text) ==
    /\ app = "running"
    /\ modalShows
    /\ modal.isEditing
    /\ modal' = [modal EXCEPT ![field] = text]
    /\ lastOp' = [op |-> "editField", field |-> field]
    /\ UNCHANGED <<entities, searchQuery, steps, storage, app, adapterVars, importVars, searchVars>>

SetLinkSearch(text) ==
    /\ app = "running"
    /\ modalShows
    /\ modal' = [modal EXCEPT !.linkSearch = text]
    /\ lastOp' = [op |-> "setLinkSearch"]
    /\ UNCHANGED <<entities, searchQuery, steps, storage, app, adapterVars, importVars, searchVars>>

(* The entities offered under 'Add Connection'. *)
potentialLink(e) ==
    /\ e.id # modalEntity.id
    /\ ~arrIncludes(modalEntity.relatedIds, e.id)
    /\ includes(toLowerCase(e.title), toLowerCase(modal.linkSearch))

(* An offered entity is clicked: linkEntities, setLinkSearch(''), and the  *)
(* sync effect after the store has changed.                                *)
AddConnection(targetId) ==
    /\ app = "running"
    /\ steps < MaxSteps
    /\ modalShows
    /\ modal.linkSearch # <<>>
    /\ \E i \in 1..Len(entities) : entities[i].id = targetId /\ potentialLink(entities[i])
    /\ entities' = linkEntities(entities, modalEntity.id, targetId)
    /\ storage' = persistEffect(entities', storage)
    /\ modal' = syncEffect(selectedEntityId, entities', [modal EXCEPT !.linkSearch = <<>>])
    /\ lastOp' = [op |-> "addConnection", idA |-> modalEntity.id, idB |-> targetId]
    /\ steps' = steps + 1
    /\ UNCHANGED <<searchQuery, app, adapterVars, importVars, searchVars>>

(* The save button: handleSave, and the sync effect after the store has    *)
(* changed.                                                                *)
HandleSave ==
    /\ app = "running"
    /\ steps < MaxSteps
    /\ modalShows
    /\ modal.isEditing
    /\ entities' = updateEntity(entities, modalEntity.id,
                                [title |-> modal.editTitle, content |-> modal.editContent,
                                 tags |-> tagsOf(modal.editTags)])
    /\ storage' = persistEffect(entities', storage)
    /\ modal' = syncEffect(selectedEntityId, entities', [modal EXCEPT !.isEditing = FALSE])
    /\ lastOp' = [op |-> "handleSave", id |-> modalEntity.id]
    /\ steps' = steps + 1
    /\ UNCHANGED <<searchQuery, app, adapterVars, importVars, searchVars>>

(* The delete button, confirmed: deleteEntity and onClose. *)
HandleDelete ==
    /\ app = "running"
    /\ steps < MaxSteps
    /\ modalShows
    /\ ~modal.isEditing
    /\ entities' = deleteEntity(entities, modalEntity.id)
    /\ storage' = persistEffect(entities', storage)
    /\ selectedEntityId' = null
    /\ lastOp' = [op |-> "handleDelete", id |-> modalEntity.id]
    /\ steps' = steps + 1
    /\ UNCHANGED <<searchQuery, app, adapterVars, imports, isProcessing, searchVars, modal>>

NextModal ==
    \/ \E id \in {"proj-1", "img-1"} : OpenEntity(id)
    \/ CloseModal
    \/ StartEdit
    \/ EditField("editTitle", <<"K","i","t">>)
    \/ EditField("editContent", <<"K","i","t">>)
    \/ EditField("editTags", <<"a",","," ","b",","," ">>)
    \/ SetLinkSearch(<<"A","r","t">>)
    \/ \E targetId \in SeedIds : AddConnection(targetId)
    \/ HandleSave
    \/ HandleDelete
    \/ \E relId \in SeedIds : modalShows /\ RemoveConnection(modalEntity.id, relId)
    \/ LinkEntities("vid-1", "img-1")

SpecModal == Init /\ [][NextModal]_vars

TypeOK ==
    /\ steps \in 0..MaxSteps
    /\ \A i \in 1..Len(entities) : {"id", "type", "title", "tags", "createdAt", "relatedIds"} \subseteq DOMAIN entities[i]

(***************************************************************************)
(* Properties                                                              *)
(***************************************************************************)
present(ents, id) == \E i \in 1..Len(ents) : ents[i].id = id

Occ(x, seq) == Cardinality({k \in 1..Len(seq) : seq[k] = x})

Max(a, b) == IF a >= b THEN a ELSE b

(* C1: a step linkEntities(A, B) with A and B both in the collection ends  *)
(* with B in the relatedIds of every entity with id A and A in those of    *)
(* every entity with id B, whatever the lists held before; it adds no id   *)
(* that a list already held; and linkEntities(A, B) applied to the result  *)
(* gives the result back.                                                  *)
C1_LinkSymmetricIdempotent ==
    [][ (/\ lastOp'.op = "linkEntities"
         /\ present(entities, lastOp'.idA)
         /\ present(entities, lastOp'.idB))
        => LET a == lastOp'.idA
               b == lastOp'.idB
           IN /\ Len(entities') = Len(entities)
              /\ \A i \in 1..Len(entities') :
                    /\ entities'[i].id = a => arrIncludes(entities'[i].relatedIds, b)
                    /\ entities'[i].id = b => arrIncludes(entities'[i].relatedIds, a)
                    /\ \A x \in Ids : Occ(x, entities'[i].relatedIds)
                                        <= Max(Occ(x, entities[i].relatedIds), 1)
              /\ linkEntities(entities', a, b) = entities' ]_vars

(* C1 witness: char-1 had lost proj-1 from its list while proj-1 still     *)
(* listed char-1, and linkEntities(char-1, proj-1) has run.                *)
C1_Witness ==
    /\ lastOp = [op |-> "linkEntities", idA |-> "char-1", idB |-> "proj-1"]
    /\ entities = linkEntities(updateEntity(SEED_DATA, "char-1", [relatedIds |-> <<>>]), "char-1", "proj-1")
    /\ getEntity(entities, "char-1").relatedIds = <<"proj-1">>
    /\ getEntity(entities, "proj-1").relatedIds = <<"char-1", "vid-1", "prompt-1">>

(* C2: after deleteEntity(A) no entity has id A and no entity's relatedIds *)
(* contains A.                                                             *)
C2_DeleteCascades ==
    lastOp.op = "deleteEntity" =>
        \A i \in 1..Len(entities) :
            /\ entities[i].id # lastOp.id
            /\ ~arrIncludes(entities[i].relatedIds, lastOp.id)

(* C3: the relation is symmetric in every reachable state: an id B in      *)
(* A.relatedIds is the id of an entity of the collection, and every entity *)
(* with id B lists A.                                                      *)
C3_RelationSymmetric ==
    \A i \in 1..Len(entities) :
        \A k \in 1..Len(entities[i].relatedIds) :
            LET b == entities[i].relatedIds[k]
            IN /\ present(entities, b)
               /\ \A j \in 1..Len(entities) :
                     entities[j].id = b => arrIncludes(entities[j].relatedIds, entities[i].id)

(* C4: no entity's relatedIds contains the entity's own id.                *)
C4_NoSelfReference ==
    \A i \in 1..Len(entities) : ~arrIncludes(entities[i].relatedIds, entities[i].id)

(* C5: no two entities of the collection have the same id.                 *)
C5_UniqueIds ==
    \A i \in 1..Len(entities) : \A j \in 1..Len(entities) :
        i # j => entities[i].id # entities[j].id

(* C6: after the modal's remove-connection button for the related pair     *)
(* (A, B), B is not in A.relatedIds and A is not in B.relatedIds.          *)
C6_RemoveConnectionUnlinks ==
    lastOp.op = "removeConnection" =>
        \A i \in 1..Len(entities) :
            /\ entities[i].id = lastOp.idA => ~arrIncludes(entities[i].relatedIds, lastOp.idB)
            /\ entities[i].id = lastOp.idB => ~arrIncludes(entities[i].relatedIds, lastOp.idA)

(* C7: the links NetworkGraph builds from the collection hold no two links *)
(* for the same unordered pair of ids, and both ends of every link are ids *)
(* of entities of the collection.                                          *)
C7_GraphLinksUniqueAndPresent ==
    LET links == graphLinks(entities)
    IN /\ \A i \in 1..Len(links) : \A j \in 1..Len(links) :
             i # j => {links[i].source, links[i].target} # {links[j].source, links[j].target}
       /\ \A i \in 1..Len(links) :
             /\ present(entities, links[i].source)
             /\ present(entities, links[i].target)

(* C7 witness: a collection with a dangling id, a list holding an id       *)
(* twice and a one-sided relation, for which links are built.              *)
C7_Witness ==
    /\ \E i \in 1..Len(entities) : \E k \in 1..Len(entities[i].relatedIds) :
          ~present(entities, entities[i].relatedIds[k])
    /\ \E i \in 1..Len(entities) : \E x \in Ids : Occ(x, entities[i].relatedIds) > 1
    /\ \E i \in 1..Len(entities) : \E j \in 1..Len(entities) :
          /\ arrIncludes(entities[i].relatedIds, entities[j].id)
          /\ ~arrIncludes(entities[j].relatedIds, entities[i].id)
    /\ Len(graphLinks(entities)) > 1

(* C8: a step addEntity(E) ends with E first and the previous collection,  *)
(* in its order, after it, and getEntity(E.id) is then E.                  *)
C8_AddFrontThenGet ==
    [][ lastOp'.op = "addEntity"
        => /\ Len(entities') = Len(entities) + 1
           /\ Head(entities') = lastOp'.entity
           /\ Tail(entities') = entities
           /\ getEntity(entities', lastOp'.entity.id) = lastOp'.entity ]_vars

(* C8 witness: an entity has been added whose id another entity of the     *)
(* collection has too, and the collection then holds six entities.         *)
C8_Witness ==
    /\ lastOp.op = "addEntity"
    /\ Len(entities) = Len(SEED_DATA) + 1
    /\ \E j \in 2..Len(entities) : entities[j].id = lastOp.entity.id

(* Case-insensitive comparison of two characters. *)
C9_SameLetter(c, d) ==
    \/ c = d
    \/ (c \in DOMAIN UpperToLower /\ UpperToLower[c] = d)
    \/ (d \in DOMAIN UpperToLower /\ UpperToLower[d] = c)
    \/ (c \in DOMAIN UpperToLower /\ d \in DOMAIN UpperToLower /\ UpperToLower[c] = UpperToLower[d])

(* q occurs in s, letters compared case-insensitively. *)
C9_Occurs(q, s) ==
    \E a \in 0..(Len(s) - Len(q)) : \A k \in 1..Len(q) : C9_SameLetter(s[a + k], q[k])

(* The texts of an entity that a query is compared with. *)
C9_Texts(e) ==
    {e.title} \cup {e.tags[k] : k \in 1..Len(e.tags)}
              \cup (IF "content" \in DOMAIN e THEN {e.content} ELSE {})

(* The positions of the entities a query matches. *)
C9_Matching(ents, q) ==
    {i \in 1..Len(ents) : \E s \in C9_Texts(ents[i]) : C9_Occurs(q, s)}

(* C9: searchEntities(searchQuery) is the sequence of the entities whose   *)
(* title, one of whose tags or whose content (when present) contains the   *)
(* query, case-insensitively, in the order of the collection; it is empty  *)
(* when no entity matches.                                                 *)
C9_SearchExact ==
    LET r == searchEntities(entities, searchQuery)
        m == C9_Matching(entities, searchQuery)
    IN /\ Len(r) = Cardinality(m)
       /\ \A k \in 1..Len(r) :
             r[k] = entities[CHOOSE i \in m : Cardinality({j \in m : j <= i}) = k]
       /\ (m = {} => r = <<>>)

(* C9 witness: an upper-case query has been entered that matches some but  *)
(* not all entities, by titles written in mixed case.                      *)
C9_Witness ==
    /\ lastOp.op = "setSearchQuery"
    /\ searchQuery = <<"K","A","E","L","E","N">>
    /\ Len(searchEntities(entities, searchQuery)) \in 1..(Len(entities) - 1)

(* A query of zero or more blanks. *)
C10_Blank(q) == \A k \in 1..Len(q) : q[k] = " "

(* C10: with an empty or blank search query the view shows the whole       *)
(* collection in its order.                                                *)
C10_BlankQueryNoFilter ==
    C10_Blank(searchQuery) => filteredData(entities, searchQuery) = entities

(* C13: after deleteEntity(char-1) on a collection in which proj-1 and     *)
(* char-1 listed each other, proj-1.relatedIds does not contain char-1 and *)
(* NetworkGraph has no node and no link for char-1.                        *)
C13_DeleteCharacterScenario ==
    (/\ lastOp = [op |-> "deleteEntity", id |-> "char-1"]
     /\ present(entities, "proj-1"))
    => /\ \A i \in 1..Len(entities) :
             entities[i].id = "proj-1" => ~arrIncludes(entities[i].relatedIds, "char-1")
       /\ \A i \in 1..Len(graphNodes(entities)) : graphNodes(entities)[i].id # "char-1"
       /\ \A i \in 1..Len(graphLinks(entities)) :
             /\ graphLinks(entities)[i].source # "char-1"
             /\ graphLinks(entities)[i].target # "char-1"

(* C15: a step updateEntity(id, updates) gives every entity with that id   *)
(* the value of each field of updates (tags as a whole), keeps its other   *)
(* fields and leaves the entities with another id as they were; when no    *)
(* entity has the id, the collection is unchanged.                         *)
C15_UpdateMergesFields ==
    [][ lastOp'.op = "updateEntity"
        => LET id == lastOp'.id
               u == lastOp'.updates
           IN /\ Len(entities') = Len(entities)
              /\ \A i \in 1..Len(entities) :
                    IF entities[i].id = id
                    THEN /\ DOMAIN entities'[i] = (DOMAIN entities[i]) \cup (DOMAIN u)
                         /\ \A f \in DOMAIN u : entities'[i][f] = u[f]
                         /\ \A f \in (DOMAIN entities[i]) \ (DOMAIN u) : entities'[i][f] = entities[i][f]
                    ELSE entities'[i] = entities[i]
              /\ (~present(entities, id) => entities' = entities) ]_vars

(* C15 witness: updateEntity has replaced the title, content and tags of   *)
(* an entity of the collection that had three other tags.                  *)
C15_Witness ==
    /\ lastOp.op = "updateEntity"
    /\ lastOp.updates = [title |-> <<"K","i","t">>, content |-> <<>>, tags |-> << <<"N","e","o","n">> >>]
    /\ present(entities, lastOp.id)
    /\ getEntity(entities, lastOp.id).tags = << <<"N","e","o","n">> >>
    /\ getEntity(entities, lastOp.id).relatedIds # <<>>

(* C16: a step deleteEntity(id) or linkEntities(idA, idB) that names an id *)
(* no entity has leaves the collection unchanged, and getEntity of such an *)
(* id is undefined.                                                        *)
C16_MissingIdNoOp ==
    [][ /\ (lastOp'.op = "deleteEntity" /\ ~present(entities, lastOp'.id))
           => entities' = entities
        /\ (lastOp'.op = "linkEntities"
             /\ (~present(entities, lastOp'.idA) \/ ~present(entities, lastOp'.idB)))
           => entities' = entities
        /\ \A id \in Ids : ~present(entities, id) => getEntity(entities, id) = undefined ]_vars

(* The id, type and createdAt of an entity. *)
C17_Fixed(e) == <<e.id, e.type, e.createdAt>>

(* C17: no step changes the id, type or createdAt of an entity that is in  *)
(* the collection before and after it: updateEntity and linkEntities keep  *)
(* them at every position, addEntity keeps them in the entities after the  *)
(* new one, deleteEntity in the entities it keeps.                         *)
C17_IdTypeCreatedAtImmutable ==
    [][ /\ lastOp'.op \in {"updateEntity", "linkEntities", "removeConnection"}
           => /\ Len(entities') = Len(entities)
              /\ \A i \in 1..Len(entities) : C17_Fixed(entities'[i]) = C17_Fixed(entities[i])
        /\ lastOp'.op = "addEntity"
           => \A i \in 1..Len(entities) : C17_Fixed(entities'[i + 1]) = C17_Fixed(entities[i])
        /\ lastOp'.op = "deleteEntity"
           => \A i \in 1..Len(entities') : \E j \in 1..Len(entities) :
                 C17_Fixed(entities'[i]) = C17_Fixed(entities[j]) ]_vars

(* C18: a step addEntity or updateEntity does not change the relatedIds of *)
(* an entity that was in the collection before it.                         *)
C18_RelatedIdsOnlyByLink ==
    [][ /\ lastOp'.op = "updateEntity"
           => /\ Len(entities') = Len(entities)
              /\ \A i \in 1..Len(entities) : entities'[i].relatedIds = entities[i].relatedIds
        /\ lastOp'.op = "addEntity"
           => \A i \in 1..Len(entities) : entities'[i + 1].relatedIds = entities[i].relatedIds ]_vars
(* C19: the first render of StoreProvider leaves the application running;  *)
(* with the key absent or holding a text that is not JSON the collection   *)
(* is then the seed data, with the JSON text of a collection it is that    *)
(* collection.                                                             *)
C19_StartupLoadsOrFallsBack ==
    lastOp.op = "mount" =>
        /\ app = "running"
        /\ (lastOp.saved = null \/ lastOp.saved = CorruptText) => entities = SEED_DATA
        /\ lastOp.saved.kind = "json" => entities = JSONparse(lastOp.saved)

(* C20: while the application runs the key holds the JSON text of the      *)
(* whole collection in memory, after the first render and after every      *)
(* mutation; and when the page is closed, the collection a new start would *)
(* load is the collection that was in memory.                              *)
C20_SnapshotFollowsCollection ==
    /\ [](app = "running" => (storage.kind = "json" /\ JSONparse(storage) = entities))
    /\ [][lastOp'.op = "reload" => initialEntities(storage') = entities]_vars

(* C20 witness: the page was closed and opened again after mutations, and  *)
(* the collection loaded is neither the seed data nor what the key held at *)
(* the first start.                                                        *)
C20_Witness ==
    /\ lastOp.op = "mount"
    /\ app = "running"
    /\ lastOp.saved.kind = "json"
    /\ entities = JSONparse(lastOp.saved)
    /\ entities \notin {JSONparse(s) : s \in {x \in StoredValues : x.kind = "json"}}
(* C11: a call of analyzeImageForTags never raises; with the service       *)
(* disabled it has returned the neutral result without a request being     *)
(* sent; and when the service rejects, answers without text or answers     *)
(* with a text that is not JSON, it returns the neutral result.            *)
C11_AnalyzeNeverRaises ==
    /\ [](call.pc # "raised")
    /\ [][(lastOp'.op = "analyzeImageForTags" /\ ~aiEnabled)
            => (call' = returned(NeutralAnalysis) /\ requests' = requests)]_vars
    /\ []((/\ lastOp.op = "serviceSettles"
           /\ lastOp.fn = "analyzeImageForTags"
           /\ (\/ lastOp.outcome.kind = "reject"
               \/ lastOp.outcome.text \in {null, EmptyText, CorruptText}))
          => call = returned(NeutralAnalysis))

(* C11 witness: the enabled service has been sent the image and has        *)
(* answered with a text that is not JSON, and the call has returned.       *)
C11_Witness ==
    /\ aiEnabled
    /\ lastOp = [op |-> "serviceSettles", fn |-> "analyzeImageForTags",
                 outcome |-> [kind |-> "response", text |-> CorruptText]]
    /\ Len(requests) > 0
    /\ call.pc = "returned"

(* C12: a call of suggestConnections never raises; with the service        *)
(* disabled or with an empty list of titles it has returned the empty list *)
(* without a request being sent; and when the service rejects or answers   *)
(* with a text that is not JSON, it returns the empty list.                *)
C12_SuggestEmptyNeverRaises ==
    /\ [](call.pc # "raised")
    /\ [][(lastOp'.op = "suggestConnections" /\ (~aiEnabled \/ lastOp'.allTitles = <<>>))
            => (call' = returned(<<>>) /\ requests' = requests)]_vars
    /\ []((/\ lastOp.op = "serviceSettles"
           /\ lastOp.fn = "suggestConnections"
           /\ (\/ lastOp.outcome.kind = "reject"
               \/ lastOp.outcome.text \in {null, EmptyText, CorruptText}))
          => call = returned(<<>>))

(* C12 witness: suggestConnections was called with the service enabled and *)
(* an empty list of titles, and no request was sent.                       *)
C12_Witness ==
    /\ aiEnabled
    /\ lastOp = [op |-> "suggestConnections", allTitles |-> <<>>]
    /\ call = returned(<<>>)
    /\ requests = <<>>
(* C14: when the await of suggestConnections ends with relatedTitles, then *)
(* for every returned title T that an entity of the collection the handler *)
(* was created with bears, the first such entity and the imported entity X *)
(* being in the collection, X's relatedIds hold that entity's id and that  *)
(* entity's relatedIds hold X's id; and with the adapter disabled the      *)
(* import ends when the file is read, having put X with empty relatedIds   *)
(* in front of the otherwise unchanged collection and sent no request.     *)
C14_ImportLinksSuggested ==
    /\ [](lastOp.op = "suggestionsSettle" =>
            \A n \in 1..Len(lastOp.relatedTitles) :
              \A j \in 1..Len(imports[lastOp.k].entities) :
                LET seen == imports[lastOp.k].entities
                    X == ImportIds[lastOp.k]
                IN (/\ seen[j].title = lastOp.relatedTitles[n]
                    /\ \A h \in 1..(j - 1) : seen[h].title # lastOp.relatedTitles[n]
                    /\ present(entities, seen[j].id)
                    /\ present(entities, X))
                   => \A i \in 1..Len(entities) :
                        /\ entities[i].id = X => arrIncludes(entities[i].relatedIds, seen[j].id)
                        /\ entities[i].id = seen[j].id => arrIncludes(entities[i].relatedIds, X))
    /\ [][(lastOp'.op = "fileLoaded" /\ ~aiEnabled) =>
            /\ Len(entities') = Len(entities) + 1
            /\ entities'[1].id = ImportIds[lastOp'.k]
            /\ entities'[1].relatedIds = <<>>
            /\ \A i \in 1..Len(entities) : entities'[i + 1] = entities[i]
            /\ imports'[lastOp'.k].pc = "done"
            /\ requests' = requests]_vars

(* C14 witness: the adapter has returned the title of the seed project and *)
(* the imported image and the project hold each other's id.                *)
C14_Witness ==
    /\ aiEnabled
    /\ lastOp.op = "suggestionsSettle"
    /\ lastOp.relatedTitles = <<T_proj1>>
    /\ \E i, j \in 1..Len(entities) :
         /\ entities[i].id = "imp-1"
         /\ entities[i].relatedIds = <<"proj-1">>
         /\ entities[j].id = "proj-1"
         /\ arrIncludes(entities[j].relatedIds, "imp-1")
(* C21: when the await of suggestConnections ends, every id that a         *)
(* relatedIds list gains belongs to an entity that is in the collection at *)
(* that time, and the entity linked to the imported one bears one of the   *)
(* returned titles at that time.                                           *)
C21_LinksMatchCurrentCollection ==
    [][lastOp'.op = "suggestionsSettle" =>
         \A i \in 1..Len(entities) :
           \A n \in 1..Len(entities'[i].relatedIds) :
             LET X == ImportIds[lastOp'.k]
                 gained == entities'[i].relatedIds[n]
             IN ~arrIncludes(entities[i].relatedIds, gained) =>
                  /\ present(entities, gained)
                  /\ \E j \in 1..Len(entities) :
                       /\ entities[j].id = (IF entities[i].id = X THEN gained ELSE entities[i].id)
                       /\ \E m \in 1..Len(lastOp'.relatedTitles) :
                            entities[j].title = lastOp'.relatedTitles[m]]_vars

(* C22: when the await of suggestConnections ends after the imported       *)
(* entity has been deleted, the collection is left as it is.               *)
C22_ResultDiscardedAfterDelete ==
    [][(lastOp'.op = "suggestionsSettle" /\ ~present(entities, ImportIds[lastOp'.k]))
         => entities' = entities]_vars
(* C23: the step of an import that follows its file read and, with the     *)
(* adapter enabled, the end of the analysis, whatever that end is, puts    *)
(* one image entity with the import's id in front of the collection; the   *)
(* end of the suggestions adds and removes no entity; and no import stops  *)
(* without having created its entity.                                      *)
C23_ImportAlwaysCreatesEntity ==
    /\ [][(\/ lastOp'.op = "analysisSettles"
           \/ (lastOp'.op = "fileLoaded" /\ ~aiEnabled))
          => /\ Len(entities') = Len(entities) + 1
             /\ entities'[1].id = ImportIds[lastOp'.k]
             /\ entities'[1].type = "image"]_vars
    /\ [][lastOp'.op = "suggestionsSettle" => Len(entities') = Len(entities)]_vars
    /\ [](\A k \in 1..Len(imports) : imports[k].pc # "failed")
(* C24: a step linkEntities(A, B) on two present entities leaves no entity *)
(* with id A that gained B while an entity with id B lacks A, nor the      *)
(* reverse, neither in the collection that getEntity and a render read nor *)
(* in the stored snapshot.                                                 *)
C24_LinkIsOneUpdate ==
    [][(/\ lastOp'.op = "linkEntities"
        /\ present(entities, lastOp'.idA)
        /\ present(entities, lastOp'.idB))
       => LET a == lastOp'.idA
              b == lastOp'.idB
              snapshot == JSONparse(storage')
              halfDone(view, x, y) ==
                  \E i \in 1..Len(entities) :
                     /\ entities[i].id = x
                     /\ ~arrIncludes(entities[i].relatedIds, y)
                     /\ arrIncludes(view[i].relatedIds, y)
                     /\ \E j \in 1..Len(view) :
                          view[j].id = y /\ ~arrIncludes(view[j].relatedIds, x)
          IN /\ Len(entities') = Len(entities)
             /\ Len(snapshot) = Len(entities)
             /\ ~halfDone(entities', a, b) /\ ~halfDone(entities', b, a)
             /\ ~halfDone(snapshot, a, b) /\ ~halfDone(snapshot, b, a)
             /\ getEntity(entities', a) # undefined
             /\ arrIncludes(getEntity(entities', a).relatedIds, b)
                  <=> arrIncludes(getEntity(entities', b).relatedIds, a)]_vars

(* C24 witness: the first operation linked two seed entities that were not *)
(* related, and both lists hold the other id.                              *)
C24_Witness ==
    /\ steps = 1
    /\ lastOp.op = "linkEntities"
    /\ lastOp.idA # lastOp.idB
    /\ present(SEED_DATA, lastOp.idA)
    /\ present(SEED_DATA, lastOp.idB)
    /\ ~arrIncludes(getEntity(SEED_DATA, lastOp.idA).relatedIds, lastOp.idB)
    /\ arrIncludes(getEntity(entities, lastOp.idA).relatedIds, lastOp.idB)
    /\ arrIncludes(getEntity(entities, lastOp.idB).relatedIds, lastOp.idA)
    /\ JSONparse(storage) = entities

(* C25: with the service enabled, the data of the request that             *)
(* analyzeImageForTags sends is the payload of an input that starts with   *)
(* 'data:image/<subtype>;base64,' and the whole input otherwise.           *)
C25_DataUriPrefixStripped ==
    (lastOp.op = "analyzeImageForTags" /\ aiEnabled) =>
       LET input == lastOp.base64Image
           framed == /\ Len(input) >= 4
                     /\ input[1] = "data:"
                     /\ input[2] = "image/"
                     /\ input[4] = ";base64,"
       IN /\ Len(requests) > 0
          /\ requests[Len(requests)].data =
                IF framed THEN SubSeq(input, 5, Len(input)) ELSE input

(* C26: updateEntity(id, ...) leaves every entity with another id as it    *)
(* was; linkEntities(idA, idB) leaves every entity with another id as it   *)
(* was and changes no field but relatedIds of the others; deleteEntity(id) *)
(* leaves the entities with another id as they were; and all three keep    *)
(* the entities that remain in their order.                                *)
C26_OnlyNamedEntitiesChange ==
    /\ [][lastOp'.op = "updateEntity" =>
            /\ Len(entities') = Len(entities)
            /\ \A i \in 1..Len(entities) :
                 entities[i].id # lastOp'.id => entities'[i] = entities[i]]_vars
    /\ [][lastOp'.op = "linkEntities" =>
            /\ Len(entities') = Len(entities)
            /\ \A i \in 1..Len(entities) :
                 /\ entities[i].id \notin {lastOp'.idA, lastOp'.idB} => entities'[i] = entities[i]
                 /\ DOMAIN entities'[i] = DOMAIN entities[i]
                 /\ \A f \in DOMAIN entities[i] \ {"relatedIds"} :
                      entities'[i][f] = entities[i][f]]_vars
    /\ [][lastOp'.op = "deleteEntity" =>
            LET gone(j) == Cardinality({h \in 1..j : entities[h].id = lastOp'.id})
            IN /\ Len(entities') = Len(entities) - gone(Len(entities))
               /\ \A j \in 1..Len(entities) :
                    entities[j].id # lastOp'.id => entities'[j - gone(j)] = entities[j]]_vars

(* C26 witness: 'char-1' was deleted from the seed data and the project    *)
(* that named it is as it was.                                             *)
C26_Witness ==
    /\ steps = 1
    /\ lastOp = [op |-> "deleteEntity", id |-> "char-1"]
    /\ Len(entities) = Len(SEED_DATA) - 1
    /\ entities[1] = SEED_DATA[1]
    /\ arrIncludes(entities[1].relatedIds, "char-1")

(* C27: the sum of the lengths of all relatedIds lists is twice the number *)
(* of links NetworkGraph builds for the collection.                        *)
C27_LinksFigureMatchesGraph ==
    relatedIdsTotal(entities, 1) = 2 * Len(graphLinks(entities))
(* C28: isProcessing is true in every state in which an import has been    *)
(* started and has not yet ended, and no two imports are in that condition *)
(* together.                                                               *)
C28_ProcessingWhileImportInFlight ==
    LET inFlight == {k \in 1..Len(imports) : imports[k].pc \notin {"done", "failed"}}
    IN /\ inFlight # {} => isProcessing
       /\ Cardinality(inFlight) <= 1
(* C29: whenever isImageSearching is true it is false again later, the     *)
(* file reader and the service call being sure to end; in particular the   *)
(* flag is false once every run of the search has ended.                   *)
C29_ImageSearchFlagCleared ==
    /\ isImageSearching ~> ~isImageSearching
    /\ []((\A k \in 1..Len(imageSearch) : imageSearch[k].pc \in {"done", "failed"})
          => ~isImageSearching)
(* C30: a step that adds or removes a connection or writes a link while    *)
(* the modal is in edit mode, the selected entity id staying the same,     *)
(* leaves the modal in edit mode with the title, content and tags being    *)
(* edited as they were.                                                    *)
C30_EditStateSurvivesStoreChange ==
    [][(/\ modalShows
        /\ modal.isEditing
        /\ selectedEntityId' = selectedEntityId
        /\ lastOp'.op \in {"addConnection", "removeConnection", "linkEntities"})
       => /\ modal'.isEditing
          /\ modal'.editTitle = modal.editTitle
          /\ modal'.editContent = modal.editContent
          /\ modal'.editTags = modal.editTags]_vars
====
